---- MODULE Spec2Model ----
(***************************************************************************)
(* Email Scanner API: three risk signals (sender address, embedded URLs,   *)
(* message content) fused into one scam score, a risk tier, labels and     *)
(* recommendations.                                                        *)
(*                                                                         *)
(* Numbers.  Risk scores and the scam score are Python floats in [0,100];  *)
(* they are modelled as exact integers in thousandths of a point           *)
(* (62.0 is 62000).  Fusion weights are floats; they are modelled in       *)
(* tenths (0.3 is 3).  An unrounded weighted average is kept as the exact  *)
(* fraction num/den (thousandths), so that rounding and the comparison     *)
(* with the tier boundaries are computed, not assumed.  A classifier       *)
(* probability in [0,1] is modelled in units of 1/100000, so that          *)
(* probability * 100 is the same integer in thousandths of a point.        *)
(*                                                                         *)
(* Optional values.  Python's None is the empty tuple and a present value  *)
(* x is the one-element tuple <<x>>.                                       *)
(***************************************************************************)
EXTENDS Integers, Sequences, FiniteSets, TLC

VARIABLES
    weights,             \* <<weight_email, weight_url, weight_content>>, tenths
    hunter_api_key,      \* settings.hunter_api_key
    virustotal_api_key,  \* settings.virustotal_api_key
    model_available,     \* content_analyzer.is_model_available()
    request,             \* the request being answered
    email_result,        \* Optional[EmailVerificationResult] of the last call
    url_result,          \* Optional[URLScanResult]
    content_result,      \* Optional[ContentAnalysisResult]
    classifier_outcome,  \* what predict / predict_proba did for the last request
    calls,               \* remote calls issued for the last request, in order
    response,            \* what the caller got back
    artifacts,           \* the two pickle files: "ok", "missing" or "corrupt"
    loaded,              \* ModelLoader._loaded
    model,               \* ModelLoader._model
    vectorizer,          \* ModelLoader._vectorizer
    analyzer,            \* content_analyzer's (model, vectorizer), once constructed
    ncalls,              \* load_model calls started so far
    pc,                  \* per thread: where its load_model call stands
    frame,               \* per thread: the locals of its load_model call
    last_return          \* per thread: what its last load_model call returned

vars == <<weights, hunter_api_key, virustotal_api_key, model_available, request,
          email_result, url_result, content_result, classifier_outcome, calls,
          response, artifacts, loaded, model, vectorizer, analyzer, ncalls, pc,
          frame, last_return>>

\* the shared ModelLoader, the analyzer built on it and the calls in progress
loader_vars == <<artifacts, loaded, model, vectorizer, analyzer, ncalls, pc,
                 frame, last_return>>

config == <<weights, hunter_api_key, virustotal_api_key, model_available>>

----------------------------------------------------------------------------
(* Bounds of the exploration *)

\* threads that may call ModelLoader.load_model
MaxThreads == 2

\* load_model calls started in one run
MaxLoadCalls == 3

\* largest malicious / suspicious engine count a provider answer carries
MaxCount == 2

\* longest email text, in tokens
MaxTextLen == 2

----------------------------------------------------------------------------
(* Helpers *)

None == <<>>

Some(x) == <<x>>

\* n points in thousandths of a point
Pct(n) == n * 1000

\* Python dict.get(key, default)
DictGet(d, k, default) == IF k \in DOMAIN d THEN d[k] ELSE default

UNCONFIGURED == "##"

\* configurations of the three fusion weights, in tenths; the first is the
\* default, the others are what an operator can put in the environment: a
\* signal switched off, a negative weight, weights that do not sum to 1
WeightConfigs == { <<3, 4, 3>>, <<0, 5, 5>>, <<-2, 4, 3>>, <<10, 10, 10>> }

----------------------------------------------------------------------------
(* models/schemas.py: the field constraints pydantic enforces at construction *)

InRange(x, lo, hi) == lo <= x /\ x <= hi

ValidEmailVerificationResult(r) ==
    /\ InRange(r.score, 0, 100)
    /\ InRange(r.risk_score, Pct(0), Pct(100))

ValidURLScanResult(r) == InRange(r.risk_score, Pct(0), Pct(100))

ValidContentAnalysisResult(r) ==
    /\ InRange(r.confidence, 0, 100000)
    /\ InRange(r.risk_score, Pct(0), Pct(100))

ValidCompleteScanResponseNoRange(r) == TRUE

ValidCompleteScanResponse(r) == InRange(r.scam_score, Pct(0), Pct(100))

----------------------------------------------------------------------------
(* services/score_calculator.py *)

\* weights of absent signals counted as well
total_weight_all(e, u, c, w) == w[1] + w[2] + w[3]

total_score(e, u, c, w) ==
      (IF e # None THEN e[1].risk_score * w[1] ELSE 0)
    + (IF u # None THEN u[1].risk_score * w[2] ELSE 0)
    + (IF c # None THEN c[1].risk_score * w[3] ELSE 0)

total_weight(e, u, c, w) ==
      (IF e # None THEN w[1] ELSE 0)
    + (IF u # None THEN w[2] ELSE 0)
    + (IF c # None THEN w[3] ELSE 0)

\* the unrounded scam_score, as the fraction num/den of thousandths
weighted_average(e, u, c, w) ==
    IF total_weight(e, u, c, w) > 0
    THEN [num |-> total_score(e, u, c, w), den |-> total_weight(e, u, c, w)]
    ELSE [num |-> 0, den |-> 1]

get_risk_level(score) ==
    IF score.num >= Pct(75) * score.den THEN "CRITICAL"
    ELSE IF score.num >= Pct(50) * score.den THEN "HIGH"
    ELSE IF score.num >= Pct(25) * score.den THEN "MEDIUM"
    ELSE "LOW"

\* round(score, 2): the nearest hundredth of a point, an exact tie going to
\* the even hundredth; the result is again in thousandths (a multiple of 10)
round2(score) ==
    LET n == score.num + 5 * score.den
        d == 10 * score.den
        k == n \div d
    IN  IF n % d = 0 /\ k % 2 = 1 THEN 10 * (k - 1) ELSE 10 * k

LABEL_INVALID_SENDER == "Invalid Sender"
LABEL_DISPOSABLE == "Disposable Email"
LABEL_HIGH_RISK_SENDER == "High Risk Sender"
LABEL_MALICIOUS_LINK == "Malicious Link Found"
LABEL_SUSPICIOUS_LINK == "Suspicious Link Found"
LABEL_PHISHING_CONTENT == "Phishing Content"
LABEL_SUSPICIOUS_CONTENT == "Suspicious Content"

\* both URL labels when both counts are positive
url_labels_both(u) ==
    IF u = None THEN <<>>
    ELSE (IF u[1].malicious_count > 0 THEN <<LABEL_MALICIOUS_LINK>> ELSE <<>>)
         \o (IF u[1].suspicious_count > 0 THEN <<LABEL_SUSPICIOUS_LINK>> ELSE <<>>)

email_labels(e) ==
    IF e = None THEN <<>>
    ELSE (IF ~e[1].valid THEN <<LABEL_INVALID_SENDER>> ELSE <<>>)
         \o (IF e[1].disposable THEN <<LABEL_DISPOSABLE>> ELSE <<>>)
         \o (IF e[1].risk_score > Pct(70) THEN <<LABEL_HIGH_RISK_SENDER>> ELSE <<>>)

url_labels(u) ==
    IF u = None THEN <<>>
    ELSE IF u[1].malicious_count > 0 THEN <<LABEL_MALICIOUS_LINK>>
    ELSE IF u[1].suspicious_count > 0 THEN <<LABEL_SUSPICIOUS_LINK>>
    ELSE <<>>

content_labels(c) ==
    IF c = None THEN <<>>
    ELSE IF c[1].is_phishing THEN <<LABEL_PHISHING_CONTENT>>
    ELSE IF c[1].risk_score > Pct(60) THEN <<LABEL_SUSPICIOUS_CONTENT>>
    ELSE <<>>

generate_labels(e, u, c) == email_labels(e) \o url_labels(u) \o content_labels(c)

\* a recommendation is its message; the malicious-link advice also carries
\* the count interpolated into it
Advice(text) == [text |-> text]

REC_NO_CLICK == Advice("Do not click any links or download attachments from this email.")
REC_REPORT_SPAM == Advice("Mark this email as spam or report it to your IT department.")
REC_SENDER == Advice("The sender's email address looks suspicious or temporary.")
REC_PHISHING == Advice("The message uses language typical of phishing scams (e.g., creating a sense of urgency).")
REC_SAFE == Advice("This email appears to be safe, but always remain cautious with unexpected messages.")

REC_MALICIOUS(n) ==
    [text |-> "We found {malicious_count} malicious link(s). Avoid interacting with them.",
     malicious_count |-> n]

\* the fallback appended unconditionally
fallback_always(recs) == recs \o <<REC_SAFE>>

fallback(recs) == IF recs = <<>> THEN <<REC_SAFE>> ELSE recs

generate_recommendations(e, u, c, risk_level) ==
    fallback(
        (IF risk_level \in {"HIGH", "CRITICAL"}
         THEN <<REC_NO_CLICK, REC_REPORT_SPAM>> ELSE <<>>)
     \o (IF e # None /\ (~e[1].valid \/ e[1].disposable) THEN <<REC_SENDER>> ELSE <<>>)
     \o (IF u # None /\ u[1].malicious_count > 0
         THEN <<REC_MALICIOUS(u[1].malicious_count)>> ELSE <<>>)
     \o (IF c # None /\ c[1].is_phishing THEN <<REC_PHISHING>> ELSE <<>>))

\* the outcome of a call: a returned value, or the exception it raised
Return(v) == [exc |-> "None", value |-> v]

Raise(e) == [exc |-> e]

calculate_score(e, u, c, w) ==
    LET scam_score == weighted_average(e, u, c, w)
        risk_level == get_risk_level(scam_score)
        r == [scam_score         |-> round2(scam_score),
              risk_level         |-> risk_level,
              labels             |-> generate_labels(e, u, c),
              recommendations    |-> generate_recommendations(e, u, c, risk_level),
              email_verification |-> e,
              url_scan           |-> u,
              content_analysis   |-> c]
    IN  IF ValidCompleteScanResponse(r) THEN Return(r) ELSE Raise("ValidationError")

----------------------------------------------------------------------------
(* utils/url_extractor.py.  A text is a sequence of tokens; the tokens the *)
(* URL pattern matches are the URL tokens.                                 *)

UrlTokens == {"http://u1", "http://u2"}

WordTokens == {"word"}

Tokens == UrlTokens \cup WordTokens

\* re.findall(url_pattern, text)
findall_urls(text) == SelectSeq(text, LAMBDA tok : tok \in UrlTokens)

\* the seen-set loop: first occurrences, in order
RECURSIVE unique_urls(_, _)
unique_urls(urls, seen) ==
    IF urls = <<>> THEN <<>>
    ELSE IF Head(urls) \in seen THEN unique_urls(Tail(urls), seen)
    ELSE <<Head(urls)>> \o unique_urls(Tail(urls), seen \cup {Head(urls)})

extract_urls(text) ==
    IF text = <<>> THEN <<>> ELSE unique_urls(findall_urls(text), {})

----------------------------------------------------------------------------
(* The remote providers.  What a call returns is the environment's choice. *)

\* requests.exceptions.RequestException raised by a call or raise_for_status
RequestExceptions == {"Timeout", "ConnectionError", "HTTPError"}

EmptyDict == <<>>

\* a dict that may or may not carry key k, with a value of S
OptionalKey(k, S) == {EmptyDict} \cup { k :> v : v \in S }

\* the "data" object of a Hunter.io answer
HunterData ==
    { r @@ s @@ d @@ g :
        r \in OptionalKey("result", {"deliverable", "undeliverable"}),
        s \in OptionalKey("score", {20, 100, 150}),
        d \in OptionalKey("disposable", {TRUE}),
        g \in { gi @@ aa : gi \in OptionalKey("gibberish", {TRUE}),
                           aa \in OptionalKey("accept_all", {TRUE}) } }

HunterOutcomes ==
    { [kind |-> k] : k \in RequestExceptions }
    \cup { [kind |-> "ok", json |-> ("data" :> d)] : d \in HunterData }
    \cup { [kind |-> "ok", json |-> EmptyDict] }

\* the answers the full scan is explored with (it multiplies them with the
\* other two signals' answers): each failure, a clean address, a risky one,
\* an out-of-range quality score, a body without "data"
HunterOutcomesFullScan ==
    { [kind |-> k] : k \in RequestExceptions }
    \cup { [kind |-> "ok", json |-> ("data" :> d)] :
            d \in { ("result" :> "deliverable") @@ ("score" :> 100),
                    ("result" :> "undeliverable") @@ ("score" :> 20)
                        @@ ("disposable" :> TRUE),
                    ("result" :> "deliverable") @@ ("score" :> 150) } }
    \cup { [kind |-> "ok", json |-> EmptyDict] }

\* last_analysis_stats of a VirusTotal URL report
VTStats ==
    {EmptyDict}
    \cup { [malicious |-> m, suspicious |-> s, harmless |-> 1, undetected |-> 0] :
            m \in 0..MaxCount, s \in 0..MaxCount }

\* per URL: the lookup's answer and, after a 404, the submission's
VTOutcomes ==
    { [lookup |-> "ok", stats |-> st] : st \in VTStats }
    \cup { [lookup |-> k] : k \in {"Timeout", "HTTPError"} }
    \cup { [lookup |-> "404", submit |-> k] : k \in {"ok", "HTTPError"} }

\* predict_proba over the classes <<"Phishing Email", "Safe Email">> and the
\* label predict returns for it
ClassifierOutcomes ==
    { [kind |-> "ok",
       prediction |-> IF p >= 100000 - p THEN "Phishing Email" ELSE "Safe Email",
       proba |-> <<p, 100000 - p>>] : p \in {74996, 8000} }
    \cup { [kind |-> "exception"] }

NoOutcome == [kind |-> "none"]

GET(provider, target, answer) ==
    [provider |-> provider, method |-> "GET", target |-> target, answer |-> answer]

POST(provider, target, answer) ==
    [provider |-> provider, method |-> "POST", target |-> target, answer |-> answer]

\* a returned value together with the remote calls made to get it
ReturnAfter(v, made) == [exc |-> "None", value |-> v, calls |-> made]

RaiseAfter(e, made) == [exc |-> e, calls |-> made]

----------------------------------------------------------------------------
(* services/email_verifier.py *)

\* gibberish weighted like accept_all
email_calculate_risk_score_gibberish15(data) ==
    LET hunter_score == DictGet(data, "score", 50)
        risk == (100 - hunter_score) * 400
                + (IF DictGet(data, "disposable", FALSE) THEN Pct(30) ELSE 0)
                + (IF DictGet(data, "gibberish", FALSE) THEN Pct(15) ELSE 0)
                + (IF DictGet(data, "accept_all", FALSE) THEN Pct(15) ELSE 0)
                + (IF DictGet(data, "result", "None") # "deliverable" THEN Pct(25) ELSE 0)
    IN  IF risk < Pct(100) THEN risk ELSE Pct(100)

email_calculate_risk_score(data) ==
    LET hunter_score == DictGet(data, "score", 50)
        risk == (100 - hunter_score) * 400
                + (IF DictGet(data, "disposable", FALSE) THEN Pct(30) ELSE 0)
                + (IF DictGet(data, "gibberish", FALSE) THEN Pct(20) ELSE 0)
                + (IF DictGet(data, "accept_all", FALSE) THEN Pct(15) ELSE 0)
                + (IF DictGet(data, "result", "None") # "deliverable" THEN Pct(25) ELSE 0)
    IN  IF risk < Pct(100) THEN risk ELSE Pct(100)

\* the not-configured default reported as a failed verification
email_not_configured_result_closed ==
    [valid |-> FALSE, score |-> 0, disposable |-> FALSE, webmail |-> FALSE,
     accept_all |-> FALSE, gibberish |-> FALSE, risk_score |-> Pct(100),
     details |-> Some([error |-> "Hunter.io API key not configured"])]

email_not_configured_result ==
    [valid |-> TRUE, score |-> 50, disposable |-> FALSE, webmail |-> FALSE,
     accept_all |-> FALSE, gibberish |-> FALSE, risk_score |-> Pct(50),
     details |-> Some([error |-> "Hunter.io API key not configured"])]

\* a failed call scored as no risk
email_error_result_open(e) ==
    [valid |-> TRUE, score |-> 0, disposable |-> FALSE, webmail |-> FALSE,
     accept_all |-> FALSE, gibberish |-> FALSE, risk_score |-> Pct(0),
     details |-> Some([error |-> e])]

email_error_result(e) ==
    [valid |-> FALSE, score |-> 0, disposable |-> FALSE, webmail |-> FALSE,
     accept_all |-> FALSE, gibberish |-> FALSE, risk_score |-> Pct(100),
     details |-> Some([error |-> e])]

email_ok_result(data) ==
    [valid      |-> DictGet(data, "result", "None") = "deliverable",
     score      |-> DictGet(data, "score", 0),
     disposable |-> DictGet(data, "disposable", FALSE),
     webmail    |-> DictGet(data, "webmail", FALSE),
     accept_all |-> DictGet(data, "accept_all", FALSE),
     gibberish  |-> DictGet(data, "gibberish", FALSE),
     risk_score |-> email_calculate_risk_score(data),
     details    |-> Some(data)]

\* outcome: what the one GET to Hunter.io does, if it is made
verify_email(email_address, api_key, outcome) ==
    IF api_key = UNCONFIGURED
    THEN ReturnAfter(email_not_configured_result, <<>>)
    ELSE LET made == <<GET("hunter", email_address, outcome.kind)>>
         IN  IF outcome.kind \in RequestExceptions
             THEN ReturnAfter(email_error_result(outcome.kind), made)
             ELSE LET data == DictGet(outcome.json, "data", EmptyDict)
                      result == email_ok_result(data)
                  IN  IF ValidEmailVerificationResult(result)
                      THEN ReturnAfter(result, made)
                      ELSE RaiseAfter("ValidationError", made)

----------------------------------------------------------------------------
(* services/url_scanner.py *)

url_calculate_risk_score(malicious, suspicious, total) ==
    IF total = 0 THEN Pct(0)
    ELSE LET risk == IF malicious > 0 THEN Pct(100)
                     ELSE IF suspicious > 0
                          THEN Pct(60) + (suspicious * Pct(30)) \div total
                          ELSE Pct(0)
         IN  IF risk < Pct(100) THEN risk ELSE Pct(100)

\* a failed lookup counted as a suspicious URL
url_error_entry_suspicious(url, e) ==
    [url |-> url, error |-> e, malicious |-> 0, suspicious |-> 1]

url_error_entry(url, e) ==
    [url |-> url, error |-> e, malicious |-> 0, suspicious |-> 0]

\* a failed submission reported as submitted
submit_url_for_scan_silent(url, outcome) ==
    [url |-> url, status |-> "submitted_for_analysis",
     malicious |-> 0, suspicious |-> 0]

\* outcome.submit: what the POST does
submit_url_for_scan(url, outcome) ==
    IF outcome.submit \in RequestExceptions
    THEN url_error_entry(url, outcome.submit)
    ELSE [url |-> url, status |-> "submitted_for_analysis",
          malicious |-> 0, suspicious |-> 0]

\* outcome.lookup: what the GET does
scan_single_url(url, outcome) ==
    IF outcome.lookup \in RequestExceptions \ {"HTTPError"}
    THEN url_error_entry(url, outcome.lookup)
    ELSE IF outcome.lookup = "404"
    THEN submit_url_for_scan(url, outcome)
    ELSE IF outcome.lookup = "HTTPError"
    THEN url_error_entry(url, outcome.lookup)
    ELSE [url        |-> url,
          malicious  |-> DictGet(outcome.stats, "malicious", 0),
          suspicious |-> DictGet(outcome.stats, "suspicious", 0),
          harmless   |-> DictGet(outcome.stats, "harmless", 0),
          undetected |-> DictGet(outcome.stats, "undetected", 0)]

\* a failed lookup tried a second time
scan_single_url_calls_retry(url, outcome) ==
    <<GET("virustotal", url, outcome.lookup)>>
    \o (IF outcome.lookup \in RequestExceptions
        THEN <<GET("virustotal", url, outcome.lookup)>> ELSE <<>>)
    \o (IF outcome.lookup = "404"
        THEN <<POST("virustotal", url, outcome.submit)>> ELSE <<>>)

\* the remote calls _scan_single_url makes for one URL
scan_single_url_calls(url, outcome) ==
    <<GET("virustotal", url, outcome.lookup)>>
    \o (IF outcome.lookup = "404"
        THEN <<POST("virustotal", url, outcome.submit)>> ELSE <<>>)

RECURSIVE SumField(_, _)
SumField(entries, k) ==
    IF entries = <<>> THEN 0
    ELSE DictGet(Head(entries), k, 0) + SumField(Tail(entries), k)

RECURSIVE Flatten(_)
Flatten(seqs) == IF seqs = <<>> THEN <<>> ELSE Head(seqs) \o Flatten(Tail(seqs))

\* outcomes: per extracted URL, what VirusTotal does when asked about it
scan_urls(email_text, api_key, outcomes) ==
    LET urls == extract_urls(email_text)
    IN  IF urls = <<>>
        THEN ReturnAfter([urls_found |-> <<>>, malicious_count |-> 0,
                          suspicious_count |-> 0, risk_score |-> Pct(0),
                          details |-> None], <<>>)
        ELSE IF api_key = UNCONFIGURED
        THEN ReturnAfter([urls_found |-> urls, malicious_count |-> 0,
                          suspicious_count |-> 0, risk_score |-> Pct(0),
                          details |-> Some(<<[error |-> "VirusTotal API key not configured"]>>)],
                         <<>>)
        ELSE LET results == [i \in 1..Len(urls) |->
                                scan_single_url(urls[i], outcomes[urls[i]])]
                 made == Flatten([i \in 1..Len(urls) |->
                                scan_single_url_calls(urls[i], outcomes[urls[i]])])
                 malicious_count == SumField(results, "malicious")
                 suspicious_count == SumField(results, "suspicious")
                 result == [urls_found |-> urls,
                            malicious_count |-> malicious_count,
                            suspicious_count |-> suspicious_count,
                            risk_score |-> url_calculate_risk_score(
                                malicious_count, suspicious_count, Len(urls)),
                            details |-> Some(results)]
             IN  IF ValidURLScanResult(result)
                 THEN ReturnAfter(result, made)
                 ELSE RaiseAfter("ValidationError", made)

----------------------------------------------------------------------------
(* services/content_analyzer.py *)

\* the confidence taken as the risk whatever the label
content_calculate_risk_score_unsigned(is_phishing, confidence) == confidence

content_calculate_risk_score(is_phishing, confidence) ==
    IF is_phishing THEN confidence ELSE 100000 - confidence

content_unavailable_result ==
    [prediction |-> "Model Not Available", confidence |-> 0,
     risk_score |-> Pct(0), is_phishing |-> FALSE]

content_error_result ==
    [prediction |-> "Error: {exception}", confidence |-> 0,
     risk_score |-> Pct(50), is_phishing |-> FALSE]

MaxOf(seq) == CHOOSE m \in { seq[i] : i \in 1..Len(seq) } :
                 \A i \in 1..Len(seq) : seq[i] <= m

\* outcome: what vectorizer.transform / model.predict / predict_proba do
analyze_content(email_text, available, outcome) ==
    IF ~available
    THEN Return(content_unavailable_result)
    ELSE IF outcome.kind = "exception"
    THEN Return(content_error_result)
    ELSE LET confidence == MaxOf(outcome.proba)
             is_phishing == outcome.prediction = "Phishing Email"
             result == [prediction |-> outcome.prediction,
                        confidence |-> confidence,
                        risk_score |-> content_calculate_risk_score(is_phishing, confidence),
                        is_phishing |-> is_phishing]
         IN  IF ValidContentAnalysisResult(result)
             THEN Return(result)
             ELSE Return(content_error_result)

----------------------------------------------------------------------------
(* models/schemas.py: EmailScanRequest.  Strings are sequences of            *)
(* characters, so that the empty string differs from a missing field.        *)

\* Optional[EmailStr]: one "@" with something on both sides
IsEmailStr(s) ==
    /\ Cardinality({ i \in 1..Len(s) : s[i] = "@" }) = 1
    /\ s[1] # "@"
    /\ s[Len(s)] # "@"

ValidEmailScanRequest(req) ==
    req.email_address = None \/ IsEmailStr(req.email_address[1])

\* Python truthiness of an Optional[str]: neither None nor empty
Truthy(opt) == opt # None /\ opt[1] # <<>>

----------------------------------------------------------------------------
(* app.py: the four scan endpoints *)

\* what a handler leaves behind: the HTTP answer, its locals, the calls made
Handled(status, body, e, u, c, made) ==
    [status |-> status, body |-> body, email_result |-> e, url_result |-> u,
     content_result |-> c, calls |-> made]

\* an exception escaping the handler
InternalServerError(e, u, c, made) == Handled("500", None, e, u, c, made)

HTTPException(status, detail) ==
    Handled(status, Some([detail |-> detail]), None, None, None, <<>>)

RequestValidationError == Handled("422", None, None, None, None, <<>>)

complete_scan(req, ho, vo, co) ==
    LET with_address == Truthy(req.email_address)
        with_text == Truthy(req.email_text)
        e_out == verify_email(req.email_address[1], hunter_api_key, ho)
        u_out == scan_urls(req.email_text[1], virustotal_api_key, vo)
        c_out == analyze_content(req.email_text[1], model_available, co)
        e == IF with_address THEN Some(e_out.value) ELSE None
        u == IF with_text THEN Some(u_out.value) ELSE None
        c == IF with_text THEN Some(c_out.value) ELSE None
        e_calls == IF with_address THEN e_out.calls ELSE <<>>
        u_calls == IF with_text THEN u_out.calls ELSE <<>>
        s_out == calculate_score(e, u, c, weights)
    IN  IF with_address /\ e_out.exc # "None"
        THEN InternalServerError(None, None, None, e_calls)
        ELSE IF with_text /\ u_out.exc # "None"
        THEN InternalServerError(e, None, None, e_calls \o u_calls)
        ELSE IF s_out.exc # "None"
        THEN InternalServerError(e, u, c, e_calls \o u_calls)
        ELSE Handled("200", Some(s_out.value), e, u, c, e_calls \o u_calls)

scan_email_address(req, ho) ==
    IF ~Truthy(req.email_address)
    THEN HTTPException("400", "email_address is required for this endpoint")
    ELSE LET e_out == verify_email(req.email_address[1], hunter_api_key, ho)
         IN  IF e_out.exc # "None"
             THEN InternalServerError(None, None, None, e_out.calls)
             ELSE Handled("200", Some(e_out.value), Some(e_out.value), None, None,
                          e_out.calls)

scan_urls_endpoint(req, vo) ==
    IF ~Truthy(req.email_text)
    THEN HTTPException("400", "email_text is required for this endpoint")
    ELSE LET u_out == scan_urls(req.email_text[1], virustotal_api_key, vo)
         IN  IF u_out.exc # "None"
             THEN InternalServerError(None, None, None, u_out.calls)
             ELSE Handled("200", Some(u_out.value), None, Some(u_out.value), None,
                          u_out.calls)

scan_content(req, co) ==
    IF ~Truthy(req.email_text)
    THEN HTTPException("400", "email_text is required for this endpoint")
    ELSE IF ~model_available
    THEN HTTPException("503",
            "ML model not available. Train the model first using ml/train_model.py")
    ELSE LET c_out == analyze_content(req.email_text[1], model_available, co)
         IN  Handled("200", Some(c_out.value), None, None, Some(c_out.value), <<>>)

----------------------------------------------------------------------------
(* ml/model_loader.py: the singleton ModelLoader.  No lock guards it, so a  *)
(* call advances one statement at a time and calls of different threads     *)
(* interleave.                                                               *)

Threads == 1..MaxThreads

Paths == {"model_path", "vectorizer_path"}

ArtifactStates == {"ok", "missing", "corrupt"}

\* the object pickle.load builds from a file: a new one at every load
Unpickled(path, call) == [artifact |-> path, load |-> call]

\* the locals of a load_model call: its number, whether a loaded pair had
\* already been returned when it started, the artifact files it has read,
\* the _model it read for its return value, whether ContentAnalyzer made it
NoFrame == [call |-> 0, late |-> FALSE, reads |-> 0, m |-> None,
            for_analyzer |-> FALSE]

\* what a load_model call returned; call 0: the thread has not returned yet
NoReturn == [call |-> 0, late |-> FALSE, reads |-> 0, pair |-> <<None, None>>]

\* the statement after `if self._loaded:`
after_check_loaded_reload(is_loaded) == "exists"

after_check_loaded(is_loaded) == IF is_loaded THEN "read_model" ELSE "exists"

\* ContentAnalyzer.is_model_available on the pair ContentAnalyzer stored
is_model_available(pair) == pair[1] # None /\ pair[2] # None

\* the loader and the analyzer once the application is imported: the one
\* load_model call of ContentAnalyzer.__init__ has returned
LoaderAfterImport ==
    /\ artifacts = [p \in Paths |-> IF model_available THEN "ok" ELSE "missing"]
    /\ loaded = model_available
    /\ model = IF model_available THEN Some(Unpickled("model_path", 1)) ELSE None
    /\ vectorizer = IF model_available
                    THEN Some(Unpickled("vectorizer_path", 1)) ELSE None
    /\ analyzer = Some(<<model, vectorizer>>)
    /\ ncalls = 1
    /\ pc = [t \in Threads |-> "idle"]
    /\ frame = [t \in Threads |-> NoFrame]
    /\ last_return = [t \in Threads |->
                    IF t = 1
                    THEN [call |-> 1, late |-> FALSE,
                          reads |-> IF model_available THEN 2 ELSE 0,
                          pair |-> <<model, vectorizer>>]
                    ELSE NoReturn]

----------------------------------------------------------------------------
(* The service: one request, drawn by the environment together with what   *)
(* each provider does when called, answered by its endpoint.               *)

Optional(S) == {None} \cup { Some(x) : x \in S }

Addresses == { <<>>, <<"a">>, <<"a", "@", "b">> }

Texts == UNION { [1..n -> Tokens] : n \in 0..MaxTextLen }

Requests(endpoint) ==
    { [endpoint |-> endpoint, email_address |-> a, email_text |-> t] :
        a \in Optional(Addresses), t \in Optional(Texts) }

NoRequest == [endpoint |-> "none", email_address |-> None, email_text |-> None]

NoResponse == [status |-> "none", body |-> None]

\* the provider behaviours that matter to a request: those of the calls it
\* can lead to
HunterOracle(req, answers) ==
    IF Truthy(req.email_address) /\ hunter_api_key # UNCONFIGURED
    THEN answers ELSE {NoOutcome}

VTOracle(req) ==
    IF Truthy(req.email_text) /\ virustotal_api_key # UNCONFIGURED
    THEN LET urls == extract_urls(req.email_text[1])
         IN  [{ urls[i] : i \in 1..Len(urls) } -> VTOutcomes]
    ELSE {EmptyDict}

ClassifierOracle(req) ==
    IF Truthy(req.email_text) /\ model_available
    THEN ClassifierOutcomes ELSE {NoOutcome}

Init ==
    /\ weights \in WeightConfigs
    /\ hunter_api_key \in {UNCONFIGURED, "hunter-key"}
    /\ virustotal_api_key \in {UNCONFIGURED, "vt-key"}
    /\ model_available \in BOOLEAN
    /\ request = NoRequest
    /\ email_result = None
    /\ url_result = None
    /\ content_result = None
    /\ classifier_outcome = NoOutcome
    /\ calls = <<>>
    /\ response = NoResponse
    /\ LoaderAfterImport

\* co: what the classifier does if analyze_content gets to use it
Answer(req, h, co) ==
    /\ request' = req
    /\ email_result' = h.email_result
    /\ url_result' = h.url_result
    /\ content_result' = h.content_result
    /\ classifier_outcome' = IF h.content_result # None THEN co ELSE NoOutcome
    /\ calls' = h.calls
    /\ response' = [status |-> h.status, body |-> h.body]
    /\ UNCHANGED <<config, loader_vars>>

\* POST /api/scan
CompleteScan ==
    /\ request = NoRequest
    /\ \E req \in Requests("/api/scan") :
         IF ~ValidEmailScanRequest(req)
         THEN Answer(req, RequestValidationError, NoOutcome)
         ELSE \E ho \in HunterOracle(req, HunterOutcomesFullScan), vo \in VTOracle(req),
                 co \in ClassifierOracle(req) :
                 Answer(req, complete_scan(req, ho, vo, co), co)

\* POST /api/scan/email-address
ScanEmailAddress ==
    /\ request = NoRequest
    /\ \E req \in Requests("/api/scan/email-address") :
         IF ~ValidEmailScanRequest(req)
         THEN Answer(req, RequestValidationError, NoOutcome)
         ELSE \E ho \in HunterOracle(req, HunterOutcomes) :
                 Answer(req, scan_email_address(req, ho), NoOutcome)

\* POST /api/scan/urls
ScanUrls ==
    /\ request = NoRequest
    /\ \E req \in Requests("/api/scan/urls") :
         IF ~ValidEmailScanRequest(req)
         THEN Answer(req, RequestValidationError, NoOutcome)
         ELSE \E vo \in VTOracle(req) :
                 Answer(req, scan_urls_endpoint(req, vo), NoOutcome)

\* POST /api/scan/content
ScanContent ==
    /\ request = NoRequest
    /\ \E req \in Requests("/api/scan/content") :
         IF ~ValidEmailScanRequest(req)
         THEN Answer(req, RequestValidationError, NoOutcome)
         ELSE \E co \in ClassifierOracle(req) :
                 Answer(req, scan_content(req, co), co)

Next == CompleteScan \/ ScanEmailAddress \/ ScanUrls \/ ScanContent

Spec == Init /\ [][Next]_vars

----------------------------------------------------------------------------
(* calculate_score applied to arbitrary schema-valid component results *)

\* risk scores around each tier boundary and inside each tier
RiskGrid == { Pct(0), 24996, Pct(25), 49996, Pct(62), 74996, Pct(75), Pct(100) }

EmailResults ==
    { [valid |-> v, score |-> 0, disposable |-> d, webmail |-> FALSE,
       accept_all |-> FALSE, gibberish |-> FALSE, risk_score |-> r, details |-> None]
      : v \in BOOLEAN, d \in BOOLEAN, r \in RiskGrid }

URLResults ==
    { [urls_found |-> <<"u1">>, malicious_count |-> m, suspicious_count |-> s,
       risk_score |-> r, details |-> None]
      : m \in 0..MaxCount, s \in 0..MaxCount, r \in RiskGrid }

ContentResults ==
    { [prediction |-> IF p THEN "Phishing Email" ELSE "Safe Email",
       confidence |-> IF p THEN r ELSE 100000 - r, risk_score |-> r,
       is_phishing |-> p]
      : p \in BOOLEAN, r \in RiskGrid }

InitScore ==
    /\ weights \in WeightConfigs
    /\ hunter_api_key = UNCONFIGURED
    /\ virustotal_api_key = UNCONFIGURED
    /\ model_available = FALSE
    /\ request = [endpoint |-> "calculate_score", email_address |-> None,
                  email_text |-> None]
    /\ email_result \in Optional(EmailResults)
    /\ url_result \in Optional(URLResults)
    /\ content_result \in Optional(ContentResults)
    /\ classifier_outcome = NoOutcome
    /\ calls = <<>>
    /\ response = NoResponse
    /\ LoaderAfterImport

\* one call of score_calculator.calculate_score on the drawn arguments
CalculateScore ==
    /\ response = NoResponse
    /\ LET out == calculate_score(email_result, url_result, content_result, weights)
       IN  response' = IF out.exc = "None"
                       THEN [status |-> "returned", body |-> Some(out.value)]
                       ELSE [status |-> out.exc, body |-> None]
    /\ UNCHANGED <<config, request, email_result, url_result, content_result,
                   classifier_outcome, calls, loader_vars>>

NextScore == CalculateScore

SpecScore == InitScore /\ [][NextScore]_vars

----------------------------------------------------------------------------
(* Properties of calculate_score, checked under SpecScore *)

Returned == response.status = "returned"

Body == response.body[1]

\* the signals passed to calculate_score: 1 address, 2 URL, 3 content
Signal(i) == IF i = 1 THEN email_result ELSE IF i = 2 THEN url_result ELSE content_result

Present == { i \in 1..3 : Signal(i) # None }

RECURSIVE SumOver(_, _)
SumOver(S, f) ==
    IF S = {} THEN 0
    ELSE LET i == CHOOSE x \in S : TRUE IN f[i] + SumOver(S \ {i}, f)

PresentRiskTimesWeight ==
    SumOver(Present, [i \in 1..3 |-> IF i \in Present THEN Signal(i)[1].risk_score * weights[i] ELSE 0])

PresentWeight == SumOver(Present, [i \in 1..3 |-> weights[i]])

Abs(x) == IF x < 0 THEN -x ELSE x

\* s (thousandths) is num/den rounded to 2 decimals: a whole number of
\* hundredths, and none is nearer to num/den
IsRoundedTo2(s, num, den) ==
    /\ den # 0
    /\ s % 10 = 0
    /\ 2 * Abs(s * den - num) <= 10 * Abs(den)

\* C1 as stated: the returned scam_score is the weighted average of the
\* present signals' risks over the present signals' weights, rounded to 2
\* decimals, and 0.0 when no signal is present.
C1_WeightedAverageOfPresent ==
    Returned =>
        IF Present = {} THEN Body.scam_score = 0
        ELSE IsRoundedTo2(Body.scam_score, PresentRiskTimesWeight, PresentWeight)

\* C1 amended: the returned scam_score is that rounded weighted average
\* whenever the weights of the present signals sum to more than 0, and it is
\* 0.0 whenever they sum to 0 or less (in particular with no signal present).
C1_WeightedAverageWhenWeightPositive ==
    Returned =>
        IF PresentWeight > 0
        THEN IsRoundedTo2(Body.scam_score, PresentRiskTimesWeight, PresentWeight)
        ELSE Body.scam_score = 0

\* address at risk 0 and URL at risk 100 under the default weights, content
\* absent: (0*0.3 + 100*0.4) / 0.7 = 57.14
C1_Witness ==
    /\ Returned
    /\ weights = <<3, 4, 3>>
    /\ email_result # None /\ email_result[1].risk_score = 0
    /\ url_result # None /\ url_result[1].risk_score = Pct(100)
    /\ content_result = None
    /\ Body.scam_score = 57140

\* the lower-inclusive step function of a score in thousandths
TierOf(s) ==
    IF s >= Pct(75) THEN "CRITICAL"
    ELSE IF s >= Pct(50) THEN "HIGH"
    ELSE IF s >= Pct(25) THEN "MEDIUM"
    ELSE "LOW"

\* C2: in every returned response risk_level is the lower-inclusive step
\* function (boundaries 25/50/75) of the scam_score reported in that response.
C2_TierIsStepFunctionOfReportedScore ==
    Returned => Body.risk_level = TierOf(Body.scam_score)

\* C3: for every weight configuration and every combination of present
\* signals, a returned scam_score lies in [0,100] and has at most 2 decimals.
C3_ScoreInRangeTwoDecimals ==
    Returned =>
        /\ Pct(0) <= Body.scam_score
        /\ Body.scam_score <= Pct(100)
        /\ Body.scam_score % 10 = 0

\* a negative address weight, all three signals at risk 100: the score is
\* (-20 + 40 + 30) / 0.5 = 100
C3_Witness ==
    /\ Returned
    /\ weights[1] < 0
    /\ Present = {1, 2, 3}
    /\ \A i \in 1..3 : Signal(i)[1].risk_score = Pct(100)
    /\ Body.scam_score = Pct(100)

\* the required output order of the labels
LabelOrder ==
    <<LABEL_INVALID_SENDER, LABEL_DISPOSABLE, LABEL_HIGH_RISK_SENDER,
      LABEL_MALICIOUS_LINK, LABEL_SUSPICIOUS_LINK,
      LABEL_PHISHING_CONTENT, LABEL_SUSPICIOUS_CONTENT>>

\* the condition under which the i-th label of LabelOrder is due
LabelDue(i) ==
    CASE i = 1 -> email_result # None /\ ~email_result[1].valid
      [] i = 2 -> email_result # None /\ email_result[1].disposable
      [] i = 3 -> email_result # None /\ email_result[1].risk_score > Pct(70)
      [] i = 4 -> url_result # None /\ url_result[1].malicious_count > 0
      [] i = 5 -> /\ url_result # None
                  /\ ~(url_result[1].malicious_count > 0)
                  /\ url_result[1].suspicious_count > 0
      [] i = 6 -> content_result # None /\ content_result[1].is_phishing
      [] i = 7 -> /\ content_result # None
                  /\ ~content_result[1].is_phishing
                  /\ content_result[1].risk_score > Pct(60)

PositionIn(order, x) == CHOOSE i \in 1..Len(order) : order[i] = x

\* every element of l is in order, and l lists them in order's order
\* without repetition
FollowsOrder(l, order) ==
    /\ \A k \in 1..Len(l) : \E i \in 1..Len(order) : order[i] = l[k]
    /\ \A j, k \in 1..Len(l) :
          j < k => PositionIn(order, l[j]) < PositionIn(order, l[k])

Elements(l) == { l[k] : k \in 1..Len(l) }

\* C9: labels holds exactly the labels whose condition holds, in the fixed
\* order, none twice, with at most one URL label and one content label.
C9_LabelsExactAndOrdered ==
    Returned =>
        /\ FollowsOrder(Body.labels, LabelOrder)
        /\ \A i \in 1..Len(LabelOrder) :
              (LabelOrder[i] \in Elements(Body.labels)) <=> LabelDue(i)
        /\ Cardinality(Elements(Body.labels)
                       \cap {LABEL_MALICIOUS_LINK, LABEL_SUSPICIOUS_LINK}) <= 1
        /\ Cardinality(Elements(Body.labels)
                       \cap {LABEL_PHISHING_CONTENT, LABEL_SUSPICIOUS_CONTENT}) <= 1

\* all three signals present and maximally risky, with suspicious hits
\* beside the malicious ones
C9_Witness ==
    /\ Returned
    /\ url_result # None
    /\ url_result[1].malicious_count > 0 /\ url_result[1].suspicious_count > 0
    /\ Body.labels = <<LABEL_INVALID_SENDER, LABEL_DISPOSABLE, LABEL_HIGH_RISK_SENDER,
                       LABEL_MALICIOUS_LINK, LABEL_PHISHING_CONTENT>>

\* the recommendations due, step by step
TierWarningsDue == Body.risk_level \in {"HIGH", "CRITICAL"}

SenderAdviceDue ==
    email_result # None /\ (~email_result[1].valid \/ email_result[1].disposable)

MaliciousAdviceDue == url_result # None /\ url_result[1].malicious_count > 0

PhishingAdviceDue == content_result # None /\ content_result[1].is_phishing

RecOrder ==
    <<REC_NO_CLICK, REC_REPORT_SPAM, REC_SENDER,
      REC_MALICIOUS(IF url_result # None THEN url_result[1].malicious_count ELSE 0),
      REC_PHISHING, REC_SAFE>>

\* C10: recommendations is never empty; it holds, in the fixed order, the two
\* warnings iff the tier is HIGH or CRITICAL, the sender advice iff the
\* address is present and invalid or disposable, the malicious-link advice
\* with the exact count iff malicious_count > 0, the phishing advice iff
\* is_phishing, and the fallback, alone, iff none of these is due.
C10_RecommendationsExactAndOrdered ==
    Returned =>
        LET recs == Body.recommendations
            has(r) == r \in Elements(recs)
        IN  /\ recs # <<>>
            /\ FollowsOrder(recs, RecOrder)
            /\ has(REC_NO_CLICK) <=> TierWarningsDue
            /\ has(REC_REPORT_SPAM) <=> TierWarningsDue
            /\ has(REC_SENDER) <=> SenderAdviceDue
            /\ has(RecOrder[4]) <=> MaliciousAdviceDue
            /\ has(REC_PHISHING) <=> PhishingAdviceDue
            /\ has(REC_SAFE) <=> ~(TierWarningsDue \/ SenderAdviceDue
                                   \/ MaliciousAdviceDue \/ PhishingAdviceDue)
            /\ has(REC_SAFE) => recs = <<REC_SAFE>>

\* every step fires: a HIGH or CRITICAL scan of a disposable sender with a
\* malicious link and phishing content
C10_Witness ==
    /\ Returned
    /\ url_result # None
    /\ Body.recommendations =
         <<REC_NO_CLICK, REC_REPORT_SPAM, REC_SENDER,
           REC_MALICIOUS(url_result[1].malicious_count), REC_PHISHING>>

----------------------------------------------------------------------------
(* ModelLoader.load_model called from several threads, interleaved with the *)
(* content analysis of scan requests.  The first call is the one of          *)
(* ContentAnalyzer.__init__; scans are served once it has returned.          *)

InitLoader ==
    /\ weights = <<3, 4, 3>>
    /\ hunter_api_key = UNCONFIGURED
    /\ virustotal_api_key = UNCONFIGURED
    /\ model_available = FALSE
    /\ request = NoRequest
    /\ email_result = None
    /\ url_result = None
    /\ content_result = None
    /\ classifier_outcome = NoOutcome
    /\ calls = <<>>
    /\ response = NoResponse
    /\ artifacts \in [Paths -> ArtifactStates]
    /\ loaded = FALSE
    /\ model = None
    /\ vectorizer = None
    /\ analyzer = None
    /\ ncalls = 0
    /\ pc = [t \in Threads |-> "idle"]
    /\ frame = [t \in Threads |-> NoFrame]
    /\ last_return = [t \in Threads |-> NoReturn]

scan_vars == <<weights, hunter_api_key, virustotal_api_key, request, email_result,
               url_result, content_result, classifier_outcome, calls, response>>

\* some load_model call has returned a loaded (model, vectorizer) pair
SomeCallReturnedLoaded ==
    \E t \in Threads : last_return[t].call # 0 /\ is_model_available(last_return[t].pair)

\* thread t's call returns pair; ContentAnalyzer._load_model stores it
Returns(t, pair) ==
    /\ last_return' = [last_return EXCEPT ![t] =
                    [call |-> frame[t].call, late |-> frame[t].late,
                     reads |-> frame[t].reads, pair |-> pair]]
    /\ pc' = [pc EXCEPT ![t] = "idle"]
    /\ frame' = [frame EXCEPT ![t] = NoFrame]
    /\ IF frame[t].for_analyzer
       THEN /\ analyzer' = Some(pair)
            /\ model_available' = is_model_available(pair)
       ELSE UNCHANGED <<analyzer, model_available>>

\* a thread enters load_model
CallLoadModel(t) ==
    /\ pc[t] = "idle"
    /\ ncalls < MaxLoadCalls
    /\ ncalls' = ncalls + 1
    /\ pc' = [pc EXCEPT ![t] = "check_loaded"]
    /\ frame' = [frame EXCEPT ![t] =
                    [call |-> ncalls + 1, late |-> SomeCallReturnedLoaded,
                     reads |-> 0, m |-> None, for_analyzer |-> ncalls = 0]]
    /\ UNCHANGED <<scan_vars, model_available, artifacts, loaded, model,
                   vectorizer, analyzer, last_return>>

\* if self._loaded:
CheckLoaded(t) ==
    /\ pc[t] = "check_loaded"
    /\ pc' = [pc EXCEPT ![t] = after_check_loaded(loaded)]
    /\ UNCHANGED <<scan_vars, model_available, artifacts, loaded, model,
                   vectorizer, analyzer, ncalls, frame, last_return>>

\* if os.path.exists(model_path) and os.path.exists(vectorizer_path): ...
\* else: return None, None
ArtifactsExist(t) ==
    /\ pc[t] = "exists"
    /\ IF \A p \in Paths : artifacts[p] # "missing"
       THEN /\ pc' = [pc EXCEPT ![t] = "load_model"]
            /\ UNCHANGED <<frame, last_return, analyzer, model_available>>
       ELSE Returns(t, <<None, None>>)
    /\ UNCHANGED <<scan_vars, artifacts, loaded, model, vectorizer, ncalls>>

\* self._model = pickle.load(f); an exception returns None, None
LoadModelFile(t) ==
    /\ pc[t] = "load_model"
    /\ IF artifacts["model_path"] = "ok"
       THEN /\ model' = Some(Unpickled("model_path", frame[t].call))
            /\ pc' = [pc EXCEPT ![t] = "load_vectorizer"]
            /\ frame' = [frame EXCEPT ![t].reads = @ + 1]
            /\ UNCHANGED <<last_return, analyzer, model_available>>
       ELSE /\ Returns(t, <<None, None>>)
            /\ UNCHANGED model
    /\ UNCHANGED <<scan_vars, artifacts, loaded, vectorizer, ncalls>>

\* self._vectorizer = pickle.load(f); an exception returns None, None
LoadVectorizerFile(t) ==
    /\ pc[t] = "load_vectorizer"
    /\ IF artifacts["vectorizer_path"] = "ok"
       THEN /\ vectorizer' = Some(Unpickled("vectorizer_path", frame[t].call))
            /\ pc' = [pc EXCEPT ![t] = "set_loaded"]
            /\ frame' = [frame EXCEPT ![t].reads = @ + 1]
            /\ UNCHANGED <<last_return, analyzer, model_available>>
       ELSE /\ Returns(t, <<None, None>>)
            /\ UNCHANGED vectorizer
    /\ UNCHANGED <<scan_vars, artifacts, loaded, model, ncalls>>

\* self._loaded = True
SetLoaded(t) ==
    /\ pc[t] = "set_loaded"
    /\ loaded' = TRUE
    /\ pc' = [pc EXCEPT ![t] = "read_model"]
    /\ UNCHANGED <<scan_vars, model_available, artifacts, model, vectorizer,
                   analyzer, ncalls, frame, last_return>>

\* return self._model, self._vectorizer: the first attribute is read
ReadModel(t) ==
    /\ pc[t] = "read_model"
    /\ frame' = [frame EXCEPT ![t].m = model]
    /\ pc' = [pc EXCEPT ![t] = "read_vectorizer"]
    /\ UNCHANGED <<scan_vars, model_available, artifacts, loaded, model,
                   vectorizer, analyzer, ncalls, last_return>>

\* ... the second attribute is read and the pair returned
ReadVectorizer(t) ==
    /\ pc[t] = "read_vectorizer"
    /\ Returns(t, <<frame[t].m, vectorizer>>)
    /\ UNCHANGED <<scan_vars, artifacts, loaded, model, vectorizer, ncalls>>

\* the content step of a scan request, on the analyzer built at import
AnalyzeContent ==
    /\ analyzer # None
    /\ \E co \in (IF is_model_available(analyzer[1])
                  THEN ClassifierOutcomes ELSE {NoOutcome}) :
          /\ content_result' =
                Some(analyze_content(<<"word">>, is_model_available(analyzer[1]), co).value)
          /\ classifier_outcome' = co
    /\ UNCHANGED <<weights, hunter_api_key, virustotal_api_key, model_available,
                   request, email_result, url_result, calls, response, loader_vars>>

NextLoader ==
    \/ \E t \in Threads :
          \/ CallLoadModel(t)
          \/ CheckLoaded(t)
          \/ ArtifactsExist(t)
          \/ LoadModelFile(t)
          \/ LoadVectorizerFile(t)
          \/ SetLoaded(t)
          \/ ReadModel(t)
          \/ ReadVectorizer(t)
    \/ AnalyzeContent

SpecLoader == InitLoader /\ [][NextLoader]_vars

----------------------------------------------------------------------------
(* Properties of the model loader, checked under SpecLoader *)

\* thread t's load_model call returns in this step
ReturnsNow(t) == pc[t] # "idle" /\ pc'[t] = "idle"

\* thread t's call fails in this step: an artifact is missing or unreadable
FailsNow(t) ==
    \/ pc[t] = "exists" /\ \E p \in Paths : artifacts[p] = "missing"
    \/ pc[t] = "load_model" /\ artifacts["model_path"] # "ok"
    \/ pc[t] = "load_vectorizer" /\ artifacts["vectorizer_path"] # "ok"

HandleWritten == model' # model \/ vectorizer' # vectorizer

\* the loaded pairs returned so far
LoadedPairsReturned ==
    { last_return[t].pair : t \in { x \in Threads :
        last_return[x].call # 0 /\ is_model_available(last_return[x].pair) } }

\* C17 as stated: once a load_model call has returned a loaded pair the
\* handle (_model, _vectorizer) is never written again, every call started
\* later returns that same pair without reading the artifact files, and
\* is_loaded never goes back to false; a load that fails or finds an
\* artifact missing returns (None, None) and leaves is_loaded false.
C17_HandleImmutableAfterFirstLoad ==
    [][ /\ SomeCallReturnedLoaded => ~HandleWritten
        /\ loaded => loaded'
        /\ \A t \in Threads :
              /\ (ReturnsNow(t) /\ frame[t].late) =>
                    /\ LoadedPairsReturned = {last_return'[t].pair}
                    /\ last_return'[t].reads = 0
              /\ (FailsNow(t) /\ pc'[t] # pc[t]) =>
                    /\ ReturnsNow(t)
                    /\ last_return'[t].pair = <<None, None>>
                    /\ ~loaded'
      ]_vars

\* C17 amended: is_loaded never goes back to false; the handle is written
\* only by load_model calls that started before any call had returned a
\* loaded pair (so after such a return only by calls of a concurrent first
\* use, which reload the artifacts and overwrite it), never by a scan; a
\* call started after a loaded pair was returned returns a loaded pair
\* without reading the artifact files; a load that fails or finds an
\* artifact missing returns (None, None) and leaves is_loaded false.
C17_OnlyConcurrentFirstUseRewrites ==
    [][ /\ loaded => loaded'
        /\ HandleWritten =>
              \E t \in Threads :
                 /\ pc[t] \in {"load_model", "load_vectorizer"}
                 /\ pc'[t] # pc[t]
                 /\ ~frame[t].late
        /\ \A t \in Threads :
              /\ (ReturnsNow(t) /\ frame[t].late) =>
                    /\ is_model_available(last_return'[t].pair)
                    /\ last_return'[t].reads = 0
              /\ (FailsNow(t) /\ pc'[t] # pc[t]) =>
                    /\ ReturnsNow(t)
                    /\ last_return'[t].pair = <<None, None>>
                    /\ ~loaded'
      ]_vars

\* concurrent first use: a call started after a loaded pair had been
\* returned got, without reading the files, a loaded pair that differs from
\* the one another call returned
C17_Witness ==
    \E t1, t2 \in Threads :
        /\ last_return[t1].call # 0 /\ last_return[t1].late
        /\ last_return[t1].reads = 0
        /\ is_model_available(last_return[t1].pair)
        /\ last_return[t2].call # 0
        /\ is_model_available(last_return[t2].pair)
        /\ last_return[t2].pair # last_return[t1].pair

----------------------------------------------------------------------------
(* Properties of the service, checked under Spec *)

DefaultWeights == <<3, 4, 3>>

FullScan == request.endpoint = "/api/scan"

HunterCalls == SelectSeq(calls, LAMBDA call : call.provider = "hunter")

VTCalls == SelectSeq(calls, LAMBDA call : call.provider = "virustotal")

Failed(call) == call.answer \in RequestExceptions

AllFailed(made) == made # <<>> /\ \A i \in 1..Len(made) : Failed(made[i])

\* C4 (stated for the default weights): every well-formed request to the
\* full scan is answered with a fused response, whatever each provider call
\* did.
C4_FullScanAlwaysAnswers ==
    (FullScan /\ ValidEmailScanRequest(request) /\ weights = DefaultWeights) =>
        /\ response.status = "200"
        /\ response.body # None
        /\ {"scam_score", "risk_level", "labels", "recommendations"}
              \subseteq DOMAIN response.body[1]

\* C5: with the address provider configured, a failed call gives valid=false,
\* risk_score=100.0 and the error in details, after exactly one call; with
\* the provider not configured the result is valid=true, risk_score=50.0.
C5_AddressFailClosedOnlyOnFailure ==
    /\ AllFailed(HunterCalls) =>
          /\ hunter_api_key # UNCONFIGURED
          /\ Len(HunterCalls) = 1
          /\ email_result # None
          /\ email_result[1].valid = FALSE
          /\ email_result[1].risk_score = Pct(100)
          /\ email_result[1].details = Some([error |-> HunterCalls[1].answer])
    /\ (hunter_api_key = UNCONFIGURED /\ email_result # None) =>
          /\ email_result[1].valid = TRUE
          /\ email_result[1].risk_score = Pct(50)

\* a full scan whose address lookup timed out
C5_Witness ==
    /\ FullScan
    /\ hunter_api_key # UNCONFIGURED
    /\ HunterCalls # <<>> /\ HunterCalls[1].answer = "Timeout"
    /\ email_result # None
    /\ email_result[1].valid = FALSE
    /\ email_result[1].risk_score = Pct(100)
    /\ response.status = "200"

\* C6: a signal whose provider is not configured returns its neutral default
\* and makes no remote call.
C6_UnconfiguredDefaultsWithoutCalls ==
    /\ (hunter_api_key = UNCONFIGURED /\ email_result # None) =>
          /\ email_result[1].valid = TRUE
          /\ email_result[1].risk_score = Pct(50)
          /\ HunterCalls = <<>>
    /\ (virustotal_api_key = UNCONFIGURED /\ url_result # None) =>
          /\ url_result[1].urls_found = extract_urls(request.email_text[1])
          /\ url_result[1].malicious_count = 0
          /\ url_result[1].suspicious_count = 0
          /\ url_result[1].risk_score = Pct(0)
          /\ VTCalls = <<>>
    /\ (~model_available /\ content_result # None) =>
          /\ content_result[1].prediction = "Model Not Available"
          /\ content_result[1].confidence = 0
          /\ content_result[1].risk_score = Pct(0)
          /\ content_result[1].is_phishing = FALSE
    /\ (hunter_api_key = UNCONFIGURED /\ virustotal_api_key = UNCONFIGURED
        /\ ValidEmailScanRequest(request) /\ FullScan) =>
          /\ Truthy(request.email_address) => email_result # None
          /\ Truthy(request.email_text) => url_result # None /\ content_result # None

\* a full scan of an address and a text holding a URL, nothing configured
C6_Witness ==
    /\ FullScan
    /\ hunter_api_key = UNCONFIGURED
    /\ virustotal_api_key = UNCONFIGURED
    /\ ~model_available
    /\ email_result # None /\ email_result[1].risk_score = Pct(50)
    /\ url_result # None /\ Len(url_result[1].urls_found) = 2
    /\ content_result # None /\ content_result[1].prediction = "Model Not Available"
    /\ calls = <<>>

\* the endpoint's required input is in the request
RequiredInputSupplied ==
    CASE request.endpoint = "/api/scan" -> TRUE
      [] request.endpoint = "/api/scan/email-address" -> Truthy(request.email_address)
      [] request.endpoint \in {"/api/scan/urls", "/api/scan/content"} ->
            Truthy(request.email_text)
      [] OTHER -> FALSE

\* every signal the endpoint uses is unavailable
EndpointSignalsUnavailable ==
    CASE request.endpoint = "/api/scan" ->
            /\ hunter_api_key = UNCONFIGURED
            /\ virustotal_api_key = UNCONFIGURED
            /\ ~model_available
      [] request.endpoint = "/api/scan/email-address" -> hunter_api_key = UNCONFIGURED
      [] request.endpoint = "/api/scan/urls" -> virustotal_api_key = UNCONFIGURED
      [] request.endpoint = "/api/scan/content" -> ~model_available
      [] OTHER -> FALSE

\* C7 (stated for the default weights): on every endpoint a well-formed
\* request carrying the required input is answered 200 with the neutral
\* result when the endpoint's providers are not configured or the classifier
\* is missing.
C7_UnavailableNeverAnError ==
    (/\ weights = DefaultWeights
     /\ ValidEmailScanRequest(request)
     /\ RequiredInputSupplied
     /\ EndpointSignalsUnavailable) => response.status = "200"

\* each details entry of the URL result records an error
EveryUrlEntryHasError ==
    /\ url_result[1].details # None
    /\ Len(url_result[1].details[1]) = Len(url_result[1].urls_found)
    /\ \A i \in 1..Len(url_result[1].details[1]) :
          "error" \in DOMAIN url_result[1].details[1][i]

AddressFailsClosed ==
    AllFailed(HunterCalls) =>
        /\ email_result # None
        /\ email_result[1].risk_score = Pct(100)
        /\ email_result[1].details = Some([error |-> HunterCalls[1].answer])

\* C8 as stated: when every remote call of a configured remote signal fails,
\* the signal's risk_score is elevated (100 for the address, not 0 for the
\* URLs), the error is in its details and the scan answers.
C8_RemoteFailureFailsClosed ==
    /\ AddressFailsClosed
    /\ AllFailed(VTCalls) =>
          /\ url_result # None
          /\ url_result[1].risk_score > Pct(0)
          /\ EveryUrlEntryHasError
    /\ (weights = DefaultWeights /\ (AllFailed(HunterCalls) \/ AllFailed(VTCalls))) =>
          response.status = "200"

\* C8 amended: the address signal fails closed (risk_score 100, error in
\* details); the URL signal records the error in every URL's details entry
\* but fails open, with both counts and risk_score 0; the scan answers
\* whenever no fusion weight is negative.
C8_AddressFailsClosedUrlFailsOpen ==
    /\ AddressFailsClosed
    /\ AllFailed(VTCalls) =>
          /\ url_result # None
          /\ url_result[1].malicious_count = 0
          /\ url_result[1].suspicious_count = 0
          /\ url_result[1].risk_score = Pct(0)
          /\ EveryUrlEntryHasError
    /\ (/\ \A i \in 1..3 : weights[i] >= 0
        /\ AllFailed(HunterCalls) \/ AllFailed(VTCalls)) =>
          response.status = "200"

\* a full scan in which the address lookup and both URL lookups failed
C8_Witness ==
    /\ FullScan
    /\ AllFailed(HunterCalls)
    /\ AllFailed(VTCalls) /\ Len(VTCalls) = 2
    /\ email_result[1].risk_score = Pct(100)
    /\ url_result[1].risk_score = Pct(0)
    /\ response.status = "200"

\* the request carries the field, possibly as an empty string
Supplied(opt) == opt # None

ResponseComponents ==
    <<response.body[1].email_verification, response.body[1].url_scan,
      response.body[1].content_analysis>>

\* C11: in an answered full scan the address signal is computed and reported
\* iff the request supplied email_address (an empty string included), the
\* URL and content signals iff it supplied email_text; provider calls are
\* made only for supplied inputs; the score averages the present signals
\* only; with both inputs omitted nothing is called and the response is the
\* all-absent one: score 0, LOW, no labels, the fallback recommendation.
C11_SignalsFollowSuppliedInputs ==
    (FullScan /\ response.status = "200") =>
        /\ (email_result # None) <=> Supplied(request.email_address)
        /\ (url_result # None) <=> Supplied(request.email_text)
        /\ (content_result # None) <=> Supplied(request.email_text)
        /\ ResponseComponents = <<email_result, url_result, content_result>>
        /\ HunterCalls # <<>> => Supplied(request.email_address)
        /\ VTCalls # <<>> => Supplied(request.email_text)
        /\ PresentWeight > 0 =>
              IsRoundedTo2(response.body[1].scam_score,
                           PresentRiskTimesWeight, PresentWeight)
        /\ (~Supplied(request.email_address) /\ ~Supplied(request.email_text)) =>
              /\ calls = <<>>
              /\ ResponseComponents = <<None, None, None>>
              /\ response.body[1].scam_score = 0
              /\ response.body[1].risk_level = "LOW"
              /\ response.body[1].labels = <<>>
              /\ response.body[1].recommendations = <<REC_SAFE>>

\* the URL signal was computed by scan_urls with VirusTotal configured
UrlsScanned == url_result # None /\ virustotal_api_key # UNCONFIGURED

\* C12: with the URL provider configured, risk_score is 0 when no URL was
\* extracted, 100 when the summed malicious count is positive,
\* 60 + (suspicious_count / total_urls) * 30 when it is 0 and the summed
\* suspicious count is positive, 0 otherwise; and it lies in [0,100].
C12_UrlRiskFormula ==
    UrlsScanned =>
        LET u == url_result[1]
            total == Len(u.urls_found)
        IN  /\ IF total = 0 THEN u.risk_score = Pct(0)
               ELSE IF u.malicious_count > 0 THEN u.risk_score = Pct(100)
               ELSE IF u.suspicious_count > 0
               THEN (u.risk_score - Pct(60)) * total = u.suspicious_count * Pct(30)
               ELSE u.risk_score = Pct(0)
            /\ u.risk_score >= Pct(0)
            /\ u.risk_score <= Pct(100)

\* where tok first occurs in text
FirstIndex(text, tok) ==
    CHOOSE i \in 1..Len(text) : text[i] = tok /\ \A j \in 1..(i - 1) : text[j] # tok

\* urls holds each URL of text once, in the order of first occurrence
UniqueInFirstOccurrenceOrder(urls, text) ==
    /\ { urls[i] : i \in 1..Len(urls) } = { text[i] : i \in 1..Len(text) } \cap UrlTokens
    /\ \A i, j \in 1..Len(urls) :
          i < j => FirstIndex(text, urls[i]) < FirstIndex(text, urls[j])

\* C13: in every URLScanResult neither count exceeds the number of URLs
\* found, both counts are at least 0, and urls_found lists the text's URLs
\* without duplicate in the order of their first occurrence.
C13_CountsBoundedByUrlsFound ==
    url_result # None =>
        LET u == url_result[1]
        IN  /\ u.malicious_count <= Len(u.urls_found)
            /\ u.suspicious_count <= Len(u.urls_found)
            /\ u.malicious_count >= 0
            /\ u.suspicious_count >= 0
            /\ UniqueInFirstOccurrenceOrder(u.urls_found, request.email_text[1])

\* the address provider answered the one call made to it
HunterAnswered == HunterCalls # <<>> /\ HunterCalls[1].answer = "ok"

\* 1 for a true condition, 0 for a false one
Indicator(b) == IF b THEN 1 ELSE 0

Min(a, b) == IF a < b THEN a ELSE b

\* C14: for a successful provider answer whose quality score q is in
\* [0,100], risk_score = min(100, (100 - q) * 0.4 + 30*[disposable]
\* + 20*[gibberish] + 15*[accept_all] + 25*[result # "deliverable"]) and it
\* lies in [0,100].
C14_AddressRiskFormula ==
    (/\ email_result # None
     /\ HunterAnswered
     /\ "score" \in DOMAIN email_result[1].details[1]
     /\ email_result[1].details[1].score \in 0..100) =>
        LET data == email_result[1].details[1]
            flag(k) == k \in DOMAIN data /\ data[k] = TRUE
            undeliverable == "result" \notin DOMAIN data \/ data.result # "deliverable"
        IN  /\ email_result[1].risk_score =
                  Min(Pct(100), (100 - data.score) * 400
                                + Pct(30) * Indicator(flag("disposable"))
                                + Pct(20) * Indicator(flag("gibberish"))
                                + Pct(15) * Indicator(flag("accept_all"))
                                + Pct(25) * Indicator(undeliverable))
            /\ email_result[1].risk_score >= Pct(0)
            /\ email_result[1].risk_score <= Pct(100)

\* quality score 20, disposable only, deliverable: 80 * 0.4 + 30 = 62.0
C14_Witness ==
    /\ email_result # None
    /\ HunterAnswered
    /\ email_result[1].details[1] =
          ("result" :> "deliverable") @@ ("score" :> 20) @@ ("disposable" :> TRUE)
    /\ email_result[1].risk_score = Pct(62)

\* analyze_content ran the classifier and it answered / it raised
Classified == content_result # None /\ classifier_outcome.kind = "ok"

ClassificationRaised == content_result # None /\ classifier_outcome.kind = "exception"

\* C15: when classification succeeds, confidence is the largest class
\* probability and risk_score is confidence*100 for the label "Phishing
\* Email", (1 - confidence)*100 for any other; when it raises, the result has
\* risk_score 50, is_phishing false and the error in its prediction; on
\* every path is_phishing = (prediction = "Phishing Email").
C15_ContentRiskFromConfidence ==
    content_result # None =>
        LET c == content_result[1]
            proba == classifier_outcome.proba
        IN  /\ Classified =>
                  /\ \E i \in 1..Len(proba) : c.confidence = proba[i]
                  /\ \A i \in 1..Len(proba) : c.confidence >= proba[i]
                  /\ c.prediction = classifier_outcome.prediction
                  /\ c.risk_score = IF classifier_outcome.prediction = "Phishing Email"
                                    THEN c.confidence ELSE 100000 - c.confidence
            /\ ClassificationRaised =>
                  /\ c.risk_score = Pct(50)
                  /\ c.is_phishing = FALSE
                  /\ c.prediction = "Error: {exception}"
            /\ c.is_phishing = (c.prediction = "Phishing Email")

\* a text classified "Safe Email" with probability 0.92: risk 8.0
C15_Witness ==
    /\ Classified
    /\ classifier_outcome.prediction = "Safe Email"
    /\ content_result[1].confidence = 92000
    /\ content_result[1].risk_score = Pct(8)
    /\ content_result[1].is_phishing = FALSE

\* the remote calls made about one URL, in order
CallsFor(url) == SelectSeq(VTCalls, LAMBDA call : call.target = url)

Last(seq) == seq[Len(seq)]

\* C16: with the URL provider configured, the details list has one entry per
\* extracted URL, in the order of urls_found; a URL whose lookup or
\* submission failed has that error in its entry and counts 0 malicious and
\* 0 suspicious; the other URLs are still looked up, the counts are the sums
\* over the entries, and scan_urls returns a result.
C16_PerUrlErrorsAreRecordedNotRaised ==
    /\ VTCalls # <<>> => url_result # None
    /\ (UrlsScanned /\ url_result[1].urls_found # <<>>) =>
          LET u == url_result[1]
              details == u.details[1]
          IN  /\ u.details # None
              /\ Len(details) = Len(u.urls_found)
              /\ \A i \in 1..Len(details) :
                    /\ details[i].url = u.urls_found[i]
                    /\ CallsFor(u.urls_found[i]) # <<>>
                    /\ Failed(Last(CallsFor(u.urls_found[i]))) =>
                          /\ "error" \in DOMAIN details[i]
                          /\ details[i].error = Last(CallsFor(u.urls_found[i])).answer
                          /\ details[i].malicious = 0
                          /\ details[i].suspicious = 0
              /\ u.malicious_count = SumOver(1..Len(details),
                                             [i \in 1..Len(details) |-> details[i].malicious])
              /\ u.suspicious_count = SumOver(1..Len(details),
                                              [i \in 1..Len(details) |-> details[i].suspicious])

\* the first URL's lookup timed out, the second was still scanned and found
\* malicious
C16_Witness ==
    /\ UrlsScanned
    /\ Len(url_result[1].urls_found) = 2
    /\ Len(VTCalls) = 2
    /\ VTCalls[1].answer = "Timeout"
    /\ VTCalls[2].answer = "ok"
    /\ url_result[1].details[1][1].error = "Timeout"
    /\ url_result[1].details[1][2].malicious = 1
    /\ url_result[1].malicious_count = 1

\* the details entry of the i-th URL reports a submission for analysis
ReportedSubmitted(i) ==
    /\ "status" \in DOMAIN url_result[1].details[1][i]
    /\ url_result[1].details[1][i].status = "submitted_for_analysis"
    /\ url_result[1].details[1][i].malicious = 0
    /\ url_result[1].details[1][i].suspicious = 0

\* C18: in one scan the address provider is called at most once; each
\* extracted URL gets exactly one lookup, first; a submission follows only a
\* lookup answered 404 and at most once; nothing is repeated after a
\* failure; a URL whose submission was accepted is reported as
\* submitted_for_analysis with zero malicious and suspicious counts.
C18_RemoteCallsSingleAttempt ==
    /\ Len(HunterCalls) <= 1
    /\ \A k \in 1..Len(HunterCalls) : HunterCalls[k].method = "GET"
    /\ VTCalls # <<>> => UrlsScanned
    /\ UrlsScanned =>
          LET urls == url_result[1].urls_found
          IN  /\ \A k \in 1..Len(VTCalls) :
                    \E i \in 1..Len(urls) : VTCalls[k].target = urls[i]
              /\ \A i \in 1..Len(urls) :
                    LET made == CallsFor(urls[i])
                    IN  /\ Len(made) \in {1, 2}
                        /\ made[1].method = "GET"
                        /\ Len(made) = 2 =>
                              /\ made[2].method = "POST"
                              /\ made[1].answer = "404"
                        /\ (Len(made) = 2 /\ ~Failed(made[2])) => ReportedSubmitted(i)

\* one scan that asked the address provider once, looked one URL up, got 404
\* and submitted it
C18_Witness ==
    /\ Len(HunterCalls) = 1
    /\ UrlsScanned
    /\ Len(url_result[1].urls_found) = 1
    /\ Len(VTCalls) = 2
    /\ VTCalls[1].method = "GET" /\ VTCalls[1].answer = "404"
    /\ VTCalls[2].method = "POST" /\ VTCalls[2].answer = "ok"
    /\ ReportedSubmitted(1)

\* C19: a result built from a successful provider answer has the risk_score
\* that the address risk formula gives for the fields the result itself
\* reports (score, disposable, gibberish, accept_all, valid), also when the
\* answer omits the quality score or other fields.
C19_AddressResultSelfConsistent ==
    (email_result # None /\ HunterAnswered) =>
        LET e == email_result[1]
        IN  e.risk_score =
               Min(Pct(100), (100 - e.score) * 400
                             + Pct(30) * Indicator(e.disposable)
                             + Pct(20) * Indicator(e.gibberish)
                             + Pct(15) * Indicator(e.accept_all)
                             + Pct(25) * Indicator(~e.valid))

====
